---- MODULE Spec2Model ----
(***************************************************************************)
(* Model of src/bot.py: the transactions table (FinanceTracker), the       *)
(* per-user conversation states (user_states) and the Telegram handlers    *)
(* start, help_command, refresh_command, handle_webapp_data and            *)
(* handle_message.                                                         *)
(*                                                                         *)
(* Conventions.  Amounts are whole roubles (Python floats restricted to    *)
(* integers, plus NaN).  A message text is the sequence of its             *)
(* whitespace-separated words, so text.split(maxsplit=1) is Head/Tail.     *)
(* Cyrillic and emoji literals of the source are transliterated to ASCII.  *)
(* A JSON object is a record; a missing key is a missing field.            *)
(***************************************************************************)
EXTENDS Integers, Sequences, FiniteSets, TLC

\* ------------------------------------------------------------------ bounds
\* Largest number of rows the transactions table holds in the model.
MaxLedger == 2
\* Longest "transactions" list of a rich-client batch payload.
MaxBatch == 3
\* Largest number of rows, and last day of the clock, where the tracker's
\* methods are called directly with the clock running.
MaxStatsRows == 3
MaxDay == 3

\* --------------------------------------------------------------- constants
\* add_transaction: "if amount > 1000000".
MAX_AMOUNT == 1000000

\* EXPENSE_CATEGORIES: Кофе, Заведение, Одежда, Косметика, Транспорт, Здоровье.
EXPENSE_CATEGORIES ==
    {"Kofe", "Zavedenie", "Odezhda", "Kosmetika", "Transport", "Zdorovye"}

\* The category handle_message gives every income: "Доход".
INCOME_CATEGORY == "Dohod"

\* Telegram user ids (update.effective_user.id).
Users == {1, 2}

\* ------------------------------------------------------------ Python floats
\* A float is a number or NaN.
Num(n) == [nan |-> FALSE, val |-> n]
NaN == [nan |-> TRUE, val |-> 0]

\* The words the model feeds to float(): numerals, "nan", and words that are
\* no number.
Numerals == {"500", "1000000", "1000001", "0", "-5"}

NumeralValue(w) ==
    CASE w = "500" -> 500
      [] w = "1000000" -> 1000000
      [] w = "1000001" -> 1000001
      [] w = "0" -> 0
      [] w = "-5" -> 0 - 5

\* float(w) of a str: [ok, value]; ok = FALSE is Python's ValueError
\* "could not convert string to float".
ParseFloat(w) ==
    IF w \in Numerals THEN [ok |-> TRUE, value |-> Num(NumeralValue(w))]
    ELSE IF w = "nan" THEN [ok |-> TRUE, value |-> NaN]
    ELSE [ok |-> FALSE, value |-> NaN]

\* A JSON amount is a JSON number or a JSON string.
JNum(n) == [form |-> "num", val |-> Num(n)]
JNaN == [form |-> "num", val |-> NaN]
JStr(w) == [form |-> "str", text |-> w]

\* float(x) of a JSON amount.
ToFloat(raw) ==
    IF raw.form = "num" THEN [ok |-> TRUE, value |-> raw.val]
    ELSE ParseFloat(raw.text)

\* f"{x:.2f}" of a JSON amount: a str raises ValueError (unknown format code).
CanFormat2f(raw) == raw.form = "num"

\* ----------------------------------------------------------------- calendar
\* The clock (datetime.now()) counts days.  Day 0 is Sunday 2026-11-29: a
\* week starts on day 1 and a month on day 2.

\* today.weekday(): Monday is 0, Sunday is 6.
Weekday(t) == (t + 6) % 7

\* strftime("%Y-%m-%d") of day t, as <<year, month, day of month>>; the
\* zero-padded text compares as these three numbers do, the year first.
\* Days from 2026-11-01 (day -28) to 2026-12-31 (day 32).
Strftime(t) == IF t <= 1 THEN <<2026, 11, 29 + t>> ELSE <<2026, 12, t - 1>>

\* The comparison of the queries written with ">" on the date part: a > b.
DateGeq_Strict(a, b) ==
    \/ a[1] > b[1]
    \/ a[1] = b[1] /\ a[2] > b[2]
    \/ a[1] = b[1] /\ a[2] = b[2] /\ a[3] > b[3]

\* a >= b on two such texts.
DateGeq(a, b) ==
    \/ a[1] > b[1]
    \/ a[1] = b[1] /\ a[2] > b[2]
    \/ a[1] = b[1] /\ a[2] = b[2] /\ a[3] >= b[3]

\* ------------------------------------------------------------------- ledger
\* AUTOINCREMENT: one more than the largest id ever in the table.
NextId(led) == IF led = <<>> THEN 1 ELSE led[Len(led)].id + 1

\* The INSERT written as INSERT OR REPLACE on a fixed id: the newest row takes
\* the place of the one before it.
InsertRow_Overwrite(led, t, user_id, transaction_type, amount, category, description) ==
    IF led = <<>>
    THEN <<[id |-> 1, user_id |-> user_id, type |-> transaction_type,
            amount |-> amount, category |-> category,
            description |-> description, date |-> Strftime(t)]>>
    ELSE [led EXCEPT ![Len(led)] =
              [id |-> led[Len(led)].id, user_id |-> user_id,
               type |-> transaction_type, amount |-> amount,
               category |-> category, description |-> description,
               date |-> Strftime(t)]]

\* The INSERT of add_transaction.
InsertRow(led, t, user_id, transaction_type, amount, category, description) ==
    Append(led, [id |-> NextId(led), user_id |-> user_id,
                 type |-> transaction_type, amount |-> amount,
                 category |-> category, description |-> description,
                 date |-> Strftime(t)])

\* add_transaction with "if amount >= 1000000" as its limit test.
AddTransaction_OffByOne(led, t, user_id, transaction_type, amount, category, description) ==
    IF ~amount.nan /\ amount.val <= 0
    THEN [exc |-> "ValueError", reason |-> "not_positive", ledger |-> led]
    ELSE IF ~amount.nan /\ amount.val >= MAX_AMOUNT
    THEN [exc |-> "ValueError", reason |-> "too_large", ledger |-> led]
    ELSE IF transaction_type \notin {"income", "expense"}
    THEN [exc |-> "ValueError", reason |-> "bad_type", ledger |-> led]
    ELSE IF amount.nan
    THEN [exc |-> "IntegrityError", reason |-> "not_null", ledger |-> led]
    ELSE [exc |-> "none", reason |-> "",
          ledger |-> InsertRow(led, t, user_id, transaction_type, amount.val,
                               category, description)]

\* add_transaction with "if amount < 0" as its sign test.
AddTransaction_ZeroAllowed(led, t, user_id, transaction_type, amount, category, description) ==
    IF ~amount.nan /\ amount.val < 0
    THEN [exc |-> "ValueError", reason |-> "not_positive", ledger |-> led]
    ELSE IF ~amount.nan /\ amount.val > MAX_AMOUNT
    THEN [exc |-> "ValueError", reason |-> "too_large", ledger |-> led]
    ELSE IF transaction_type \notin {"income", "expense"}
    THEN [exc |-> "ValueError", reason |-> "bad_type", ledger |-> led]
    ELSE IF amount.nan
    THEN [exc |-> "IntegrityError", reason |-> "not_null", ledger |-> led]
    ELSE [exc |-> "none", reason |-> "",
          ledger |-> InsertRow(led, t, user_id, transaction_type, amount.val,
                               category, description)]

\* add_transaction(user_id, transaction_type, amount, category, description)
\* at clock t: the exception it raises ("none" when it returns), the reason of
\* a ValueError, and the table afterwards.
AddTransaction(led, t, user_id, transaction_type, amount, category, description) ==
    IF ~amount.nan /\ amount.val <= 0
    THEN [exc |-> "ValueError", reason |-> "not_positive", ledger |-> led]
    ELSE IF ~amount.nan /\ amount.val > MAX_AMOUNT
    THEN [exc |-> "ValueError", reason |-> "too_large", ledger |-> led]
    ELSE IF transaction_type \notin {"income", "expense"}
    THEN [exc |-> "ValueError", reason |-> "bad_type", ledger |-> led]
    ELSE IF amount.nan
    THEN \* sqlite3 binds NaN as NULL: "amount REAL NOT NULL" fails
         [exc |-> "IntegrityError", reason |-> "not_null", ledger |-> led]
    ELSE [exc |-> "none", reason |-> "",
          ledger |-> InsertRow(led, t, user_id, transaction_type, amount.val,
                               category, description)]

\* SELECT SUM(amount) ... WHERE user_id = ? for one group (type) of the
\* GROUP BY of get_user_balance.
RECURSIVE SumOfType(_, _, _)
SumOfType(led, user_id, ty) ==
    IF led = <<>> THEN 0
    ELSE (IF Head(led).user_id = user_id /\ Head(led).type = ty
          THEN Head(led).amount ELSE 0)
         + SumOfType(Tail(led), user_id, ty)

\* The groups of "GROUP BY type" for one user.
TypesOf(led, user_id) ==
    {led[i].type : i \in {j \in 1..Len(led) : led[j].user_id = user_id}}

\* The loop of get_user_balance over the fetched groups.
RECURSIVE BalanceLoop(_, _, _)
BalanceLoop(groups, led, user_id) ==
    IF groups = {} THEN 0
    ELSE LET ty == CHOOSE g \in groups : TRUE
         IN  (IF ty = "income" THEN SumOfType(led, user_id, ty)
              ELSE 0 - SumOfType(led, user_id, ty))
             + BalanceLoop(groups \ {ty}, led, user_id)

\* get_user_balance with "balance += amount" in both branches of its loop.
GetUserBalance_NoSign(led, user_id) ==
    SumOfType(led, user_id, "income") + SumOfType(led, user_id, "expense")

\* get_user_balance(user_id).
GetUserBalance(led, user_id) == BalanceLoop(TypesOf(led, user_id), led, user_id)

\* ----------------------------------------------------------- store failures
\* The methods of FinanceTracker that open the database.  A handler runs with
\* a set down of them: a call of a method in down raises
\* sqlite3.OperationalError before it reads or writes anything.
TrackerMethods ==
    {"add_transaction", "get_user_balance", "get_stats",
     "get_user_transactions"}

\* The database is available to every method.
NoFailure == {}

\* tracker.add_transaction(...) under down: the validation comes first, then
\* the database is opened.
TryAddTransaction(led, t, user_id, transaction_type, amount, category, description, down) ==
    LET r == AddTransaction(led, t, user_id, transaction_type, amount,
                            category, description)
    IN  IF r.exc = "ValueError" \/ "add_transaction" \notin down THEN r
        ELSE [exc |-> "OperationalError", reason |-> "store", ledger |-> led]

\* --------------------------------------------------------------- statistics
\* A week that starts on Sunday.
WeekStart_Sunday(t) == Strftime(t - ((Weekday(t) + 1) % 7))

\* week_start = today - timedelta(days=today.weekday()), formatted.
WeekStart(t) == Strftime(t - Weekday(t))

\* datetime.now().replace(day=1), formatted.
MonthStart(t) == <<Strftime(t)[1], Strftime(t)[2], 1>>

\* The date condition of the WHERE clause: "date(date) = today" for the day,
\* "date >= start" for the week and the month.
InWindow(row, t, period) ==
    IF period = "day" THEN row.date = Strftime(t)
    ELSE IF period = "week" THEN DateGeq(row.date, WeekStart(t))
    ELSE DateGeq(row.date, MonthStart(t))

\* dict[category] = amount on a category mapping.
PutAmount(f, category, amount) ==
    [c \in DOMAIN f \cup {category} |-> IF c = category THEN amount ELSE f[c]]

\* SUM(amount) of the GROUP BY: the row's amount is added to what its group
\* (type, category) holds so far.
GroupAdd(f, category, amount) ==
    PutAmount(f, category,
              IF category \in DOMAIN f THEN f[category] + amount ELSE amount)

\* The statistics with "stats['total_expense'] += amount" in both branches
\* of the loop.
StatsAdd_TotalAll(stats, transaction_type, category, amount) ==
    IF transaction_type = "income"
    THEN [stats EXCEPT !.income = GroupAdd(@, category, amount),
                       !.total_expense = @ + amount]
    ELSE [stats EXCEPT !.expense = GroupAdd(@, category, amount),
                       !.total_expense = @ + amount]

\* What one selected row adds to the statistics: its amount to its group's
\* SUM, which the loop stores under the category of the income dict (type
\* income) or of the expense dict (every other type) and adds to that
\* dict's total.
StatsAdd(stats, transaction_type, category, amount) ==
    IF transaction_type = "income"
    THEN [stats EXCEPT !.income = GroupAdd(@, category, amount),
                       !.total_income = @ + amount]
    ELSE [stats EXCEPT !.expense = GroupAdd(@, category, amount),
                       !.total_expense = @ + amount]

\* stats = {"income": {}, "expense": {}, "total_income": 0,
\* "total_expense": 0}
EmptyStats ==
    [income |-> [c \in {} |-> 0], expense |-> [c \in {} |-> 0],
     total_income |-> 0, total_expense |-> 0]

\* The query and the loop over the rows from position i on: the rows of the
\* user in the window are grouped, summed and totalled.
RECURSIVE StatsFrom(_, _, _, _, _, _)
StatsFrom(led, i, t, user_id, period, stats) ==
    IF i > Len(led) THEN stats
    ELSE IF led[i].user_id = user_id /\ InWindow(led[i], t, period)
    THEN StatsFrom(led, i + 1, t, user_id, period,
                   StatsAdd(stats, led[i].type, led[i].category,
                            led[i].amount))
    ELSE StatsFrom(led, i + 1, t, user_id, period, stats)

\* get_daily_stats, get_weekly_stats and get_monthly_stats (period "day",
\* "week", "month") at clock t.
GetStats(led, t, user_id, period) ==
    StatsFrom(led, 1, t, user_id, period, EmptyStats)

GetDailyStats(led, t, user_id) == GetStats(led, t, user_id, "day")
GetWeeklyStats(led, t, user_id) == GetStats(led, t, user_id, "week")
GetMonthlyStats(led, t, user_id) == GetStats(led, t, user_id, "month")

\* ORDER BY date DESC: the orders the rows of a set of positions may come
\* in.  Rows of one date come in an order the query does not fix.
OrderByDateDesc(led, rows) ==
    {q \in [1..Cardinality(rows) -> rows] :
        /\ \A a, b \in 1..Cardinality(rows) : a # b => q[a] # q[b]
        /\ \A a, b \in 1..Cardinality(rows) :
               a < b => DateGeq(led[q[a]].date, led[q[b]].date)}

\* LIMIT ?: the first limit rows; SQLite reads a negative limit as no limit.
SqlLimit(q, limit) ==
    IF limit < 0 \/ limit >= Len(q) THEN q ELSE SubSeq(q, 1, limit)

\* get_user_transactions(user_id, limit): the lists it may return, each row
\* as the dict of its five selected columns.
GetUserTransactions(led, user_id, limit) ==
    LET rows == {i \in 1..Len(led) : led[i].user_id = user_id}
    IN  {[k \in 1..Len(SqlLimit(q, limit)) |->
             [type |-> led[q[k]].type, amount |-> led[q[k]].amount,
              category |-> led[q[k]].category,
              description |-> led[q[k]].description,
              date |-> led[q[k]].date]]
         : q \in OrderByDateDesc(led, rows)}


\* --------------------------------------------------------------- texts
\* Button labels, as word sequences.
\* "🔙 Назад"
BTN_BACK == <<"<-", "Nazad">>
\* "💰 Добавить доход"
BTN_ADD_INCOME == <<"+", "Dobavit", "dohod">>
\* "💸 Добавить расход"
BTN_ADD_EXPENSE == <<"-", "Dobavit", "rashod">>
\* "📊 Баланс"
BTN_BALANCE == <<"=", "Balans">>
\* "📈 Статистика"
BTN_STATS == <<"%", "Statistika">>
\* "❓ Помощь"
BTN_HELP == <<"?", "Pomosch">>
\* "📅 За день", "📆 За неделю", "🗓️ За месяц"
BTN_DAY == <<"d", "Za", "den">>
BTN_WEEK == <<"w", "Za", "nedelyu">>
BTN_MONTH == <<"m", "Za", "mesyac">>

\* The category test taking any one-word text for a category.
IsCategoryText_AnyLabel(text) == Len(text) = 1

\* "text in EXPENSE_CATEGORIES": the text is exactly one category label.
IsCategoryText(text) == Len(text) = 1 /\ text[1] \in EXPENSE_CATEGORIES

\* The texts the model sends: every button, a category of the fixed set, a
\* label outside it, amounts (valid with a description, zero, negative, above
\* the maximum, NaN), a word that is no number, and a text of
\* whitespace only.
Texts ==
    {BTN_BACK, BTN_ADD_INCOME, BTN_ADD_EXPENSE, BTN_BALANCE, BTN_STATS,
     BTN_HELP, BTN_DAY, BTN_WEEK, BTN_MONTH,
     <<"Kofe">>, <<"Eda">>,
     <<"500", "obed">>, <<"0">>, <<"-5">>, <<"1000001">>,
     <<"nan">>, <<"abc">>, <<>>}

\* ------------------------------------------------------- conversation state
\* {"state": "main"} and the other values handle_message stores.
StMain == [state |-> "main"]
StEnterIncome == [state |-> "enter_income_amount"]
StSelectCategory == [state |-> "select_expense_category"]
StEnterExpense(c) == [state |-> "enter_expense_amount", category |-> c]
StSelectStats == [state |-> "select_stats_period"]

\* A dict assignment that updates the stored value field by field instead of
\* replacing it: fields v does not name survive.
Put_Merge(us, user_id, v) ==
    [x \in DOMAIN us \cup {user_id} |->
        IF x # user_id THEN us[x]
        ELSE IF x \notin DOMAIN us THEN v
        ELSE [f \in DOMAIN us[x] \cup DOMAIN v |->
                 IF f \in DOMAIN v THEN v[f] ELSE us[x][f]]]

\* user_states = {user_id: v}: the name is bound to a new dict that holds
\* this user only.
Put_Rebind(us, user_id, v) == [x \in {user_id} |-> v]

\* user_states[user_id] = v on a dict.
Put(us, user_id, v) ==
    [x \in DOMAIN us \cup {user_id} |-> IF x = user_id THEN v ELSE us[x]]

\* ------------------------------------------------------------------ replies
\* What the URL carries of one period's statistics: the two totals and the
\* expense dict (json.dumps of it).
UrlStats(stats) ==
    [income |-> stats.total_income, expense |-> stats.total_expense,
     expenses |-> stats.expense]

\* The URL get_webapp_url_with_data returns from its except branch:
\* WEBAPP_URL with no query string.
BareUrl == [bare |-> TRUE]

\* get_user_stats(user_id) raises when one of the methods it calls does.
SnapshotFails(down) ==
    down \cap {"get_user_balance", "get_stats", "get_user_transactions"} # {}

\* data = {...}: what the query string encodes.
UrlData(led, t, user_id) ==
    [balance |-> GetUserBalance(led, user_id),
     daily |-> UrlStats(GetDailyStats(led, t, user_id)),
     weekly |-> UrlStats(GetWeeklyStats(led, t, user_id)),
     monthly |-> UrlStats(GetMonthlyStats(led, t, user_id)),
     timestamp |-> t,
     user_id |-> user_id]

\* An except branch that still appends the user to the query string.
GetWebappUrlWithData_KeepsUser(led, t, user_id, down) ==
    IF SnapshotFails(down) THEN [user_id |-> user_id]
    ELSE UrlData(led, t, user_id)

\* get_webapp_url_with_data(user_id): the URL with the data of
\* get_user_stats(user_id) encoded; the bare URL when anything in the try
\* block raises.
GetWebappUrlWithData(led, t, user_id, down) ==
    IF SnapshotFails(down) THEN BareUrl ELSE UrlData(led, t, user_id)

\* get_main_keyboard(user_id): its first button opens the web app at the URL.
GetMainKeyboard(led, t, user_id, down) ==
    [kind |-> "main", url |-> GetWebappUrlWithData(led, t, user_id, down)]

\* A keyboard with the back button only; the category and period keyboards;
\* no reply_markup.
BackKeyboard == [kind |-> "back"]
CategoryKeyboard == [kind |-> "categories"]
StatsKeyboard == [kind |-> "stats"]
NoKeyboard == [kind |-> "none"]

\* No reply_text call was made.
NoReply == [kind |-> "none"]

\* What a handler leaves behind: the dict, the table, the message sent and
\* the exception that escaped it ("none" when it returned).
Outcome(us, led, rep, exc) ==
    [user_states |-> us, ledger |-> led, reply |-> rep, raised |-> exc]


\* ----------------------------------------------------------- handle_message
\* A description that keeps the amount word.
PartsDescription_WholeText(text) == text

\* description = parts[1] if len(parts) > 1 else "": the text after its
\* first word.
PartsDescription(text) == Tail(text)

\* An except branch that also sends the user back to the main menu.
AmountError_Reset(us, led, user_id, reason) ==
    Outcome(Put(us, user_id, StMain), led,
            [kind |-> "error", reason |-> reason, keyboard |-> NoKeyboard],
            "none")

\* except ValueError as e: the error is answered; user_states is not
\* assigned.
AmountError(us, led, user_id, reason) ==
    Outcome(us, led,
            [kind |-> "error", reason |-> reason, keyboard |-> NoKeyboard],
            "none")

\* The amount states: parts = text.split(maxsplit=1); float(parts[0]);
\* add_transaction; (income only) get_user_balance; reply;
\* user_states[user_id] = main.  ValueError is caught and answered;
\* IndexError (no word) and the database's errors escape.
EnterAmount(us, led, t, user_id, text, transaction_type, category, added, down) ==
    IF text = <<>>
    THEN Outcome(us, led, NoReply, "IndexError")
    ELSE LET f == ParseFloat(Head(text))
             description == PartsDescription(text)
         IN  IF ~f.ok
             THEN AmountError(us, led, user_id, "not_a_number")
             ELSE LET r == TryAddTransaction(led, t, user_id,
                                             transaction_type, f.value,
                                             category, description, down)
                  IN  IF r.exc = "ValueError"
                      THEN AmountError(us, r.ledger, user_id, r.reason)
                      ELSE IF r.exc # "none"
                      THEN Outcome(us, r.ledger, NoReply, r.exc)
                      ELSE IF transaction_type = "income"
                              /\ "get_user_balance" \in down
                      THEN Outcome(us, r.ledger, NoReply, "OperationalError")
                      ELSE Outcome(Put(us, user_id, StMain), r.ledger,
                                   [kind |-> added, amount |-> f.value.val,
                                    category |-> category,
                                    description |-> description,
                                    keyboard |->
                                        GetMainKeyboard(r.ledger, t, user_id,
                                                        down)],
                                   "none")

\* The statistics a period button asks for.
PeriodOf(text) ==
    IF text = BTN_DAY THEN "day" ELSE IF text = BTN_WEEK THEN "week" ELSE "month"

\* A period test with a final "else" that takes the month: every text passes.
IsPeriodText_ElseMonth(text) == TRUE

\* The three "text == ..." tests of the period branch; any other text takes
\* "else: return".
IsPeriodText(text) == text \in {BTN_DAY, BTN_WEEK, BTN_MONTH}

\* handle_message(update, context) for user_id and text, at clock t, with the
\* tracker's methods in down failing.
MessageOutcome(us0, led, t, user_id, text, down) ==
    LET us == IF user_id \in DOMAIN us0 THEN us0 ELSE Put(us0, user_id, StMain)
        state == us[user_id].state
    IN  IF text = BTN_BACK
        THEN Outcome(Put(us, user_id, StMain), led,
                     [kind |-> "menu",
                      keyboard |-> GetMainKeyboard(led, t, user_id, down)],
                     "none")
        ELSE IF state = "main"
        THEN IF text = BTN_ADD_INCOME
             THEN Outcome(Put(us, user_id, StEnterIncome), led,
                          [kind |-> "ask_income_amount",
                           keyboard |-> BackKeyboard], "none")
             ELSE IF text = BTN_ADD_EXPENSE
             THEN Outcome(Put(us, user_id, StSelectCategory), led,
                          [kind |-> "ask_category",
                           keyboard |-> CategoryKeyboard], "none")
             ELSE IF text = BTN_BALANCE
             THEN IF "get_user_balance" \in down
                  THEN Outcome(us, led, NoReply, "OperationalError")
                  ELSE
                  Outcome(us, led,
                          [kind |-> "balance",
                           balance |-> GetUserBalance(led, user_id),
                           keyboard |-> NoKeyboard], "none")
             ELSE IF text = BTN_STATS
             THEN Outcome(Put(us, user_id, StSelectStats), led,
                          [kind |-> "ask_period",
                           keyboard |-> StatsKeyboard], "none")
             ELSE IF text = BTN_HELP
             THEN Outcome(us, led,
                          [kind |-> "help", keyboard |-> NoKeyboard], "none")
             ELSE Outcome(us, led, NoReply, "none")
        ELSE IF state = "select_stats_period"
        THEN IF IsPeriodText(text)
             THEN IF "get_stats" \in down
                  THEN Outcome(us, led, NoReply, "OperationalError")
                  ELSE
                  Outcome(Put(us, user_id, StMain), led,
                          [kind |-> "stats", period |-> PeriodOf(text),
                           stats |-> GetStats(led, t, user_id, PeriodOf(text)),
                           keyboard |->
                               GetMainKeyboard(led, t, user_id, down)],
                          "none")
             ELSE Outcome(us, led, NoReply, "none")
        ELSE IF state = "select_expense_category"
        THEN IF IsCategoryText(text)
             THEN Outcome(Put(us, user_id, StEnterExpense(text[1])), led,
                          [kind |-> "ask_expense_amount",
                           category |-> text[1],
                           keyboard |-> BackKeyboard], "none")
             ELSE Outcome(us, led, NoReply, "none")
        ELSE IF state = "enter_income_amount"
        THEN EnterAmount(us, led, t, user_id, text, "income",
                         INCOME_CATEGORY, "income_added", down)
        ELSE IF state = "enter_expense_amount"
        THEN EnterAmount(us, led, t, user_id, text, "expense",
                         us[user_id].category, "expense_added", down)
        ELSE Outcome(us, led, NoReply, "none")

\* ------------------------------------------------------- handle_webapp_data
\* transaction.get('description', '').
DescriptionOf(tx) ==
    IF "description" \in DOMAIN tx THEN tx.description ELSE <<>>

\* The call with the description argument left at its default ''.
InsertElement_NoDescription(led, t, user_id, tx, down) ==
    IF "type" \notin DOMAIN tx \/ "amount" \notin DOMAIN tx
    THEN [exc |-> "KeyError", reason |-> "missing", ledger |-> led]
    ELSE IF ~ToFloat(tx.amount).ok
    THEN [exc |-> "ValueError", reason |-> "not_a_number", ledger |-> led]
    ELSE IF "category" \notin DOMAIN tx
    THEN [exc |-> "KeyError", reason |-> "missing", ledger |-> led]
    ELSE TryAddTransaction(led, t, user_id, tx.type,
                           ToFloat(tx.amount).value, tx.category, <<>>, down)

\* The call add_transaction(user_id, tx['type'], float(tx['amount']),
\* tx['category'], tx.get('description', '')): its arguments are evaluated
\* first (KeyError for a missing key, ValueError for float()).
InsertElement(led, t, user_id, tx, down) ==
    IF "type" \notin DOMAIN tx \/ "amount" \notin DOMAIN tx
    THEN [exc |-> "KeyError", reason |-> "missing", ledger |-> led]
    ELSE IF ~ToFloat(tx.amount).ok
    THEN [exc |-> "ValueError", reason |-> "not_a_number", ledger |-> led]
    ELSE IF "category" \notin DOMAIN tx
    THEN [exc |-> "KeyError", reason |-> "missing", ledger |-> led]
    ELSE TryAddTransaction(led, t, user_id, tx.type,
                           ToFloat(tx.amount).value, tx.category,
                           DescriptionOf(tx), down)

\* The loop with the call wrapped in try/except/continue: a failing element
\* is skipped and the elements after it are still inserted.
RECURSIVE BatchLoop_BestEffort(_, _, _, _, _, _, _, _)
BatchLoop_BestEffort(led, t, user_id, transactions, i, total_income, total_expense, down) ==
    IF i > Len(transactions)
    THEN [exc |-> "none", ledger |-> led, total_income |-> total_income,
          total_expense |-> total_expense]
    ELSE LET tx == transactions[i]
             r == InsertElement(led, t, user_id, tx, down)
         IN  IF r.exc # "none"
             THEN BatchLoop_BestEffort(led, t, user_id, transactions, i + 1,
                                       total_income, total_expense, down)
             ELSE IF tx.type = "income"
             THEN BatchLoop_BestEffort(r.ledger, t, user_id, transactions,
                                       i + 1,
                                       total_income + ToFloat(tx.amount).value.val,
                                       total_expense, down)
             ELSE BatchLoop_BestEffort(r.ledger, t, user_id, transactions,
                                       i + 1, total_income,
                                       total_expense + ToFloat(tx.amount).value.val, down)

\* "for transaction in transactions": from element i on, with the totals so
\* far; stops at the first exception.
RECURSIVE BatchLoop(_, _, _, _, _, _, _, _)
BatchLoop(led, t, user_id, transactions, i, total_income, total_expense, down) ==
    IF i > Len(transactions)
    THEN [exc |-> "none", ledger |-> led, total_income |-> total_income,
          total_expense |-> total_expense]
    ELSE LET tx == transactions[i]
             r == InsertElement(led, t, user_id, tx, down)
         IN  IF r.exc # "none"
             THEN [exc |-> r.exc, ledger |-> r.ledger,
                   total_income |-> total_income,
                   total_expense |-> total_expense]
             ELSE IF tx.type = "income"
             THEN BatchLoop(r.ledger, t, user_id, transactions, i + 1,
                            total_income + ToFloat(tx.amount).value.val,
                            total_expense, down)
             ELSE BatchLoop(r.ledger, t, user_id, transactions, i + 1,
                            total_income,
                            total_expense + ToFloat(tx.amount).value.val, down)

\* "except Exception": the one reply every failure gets.
WebappErrorReply == [kind |-> "webapp_error", keyboard |-> NoKeyboard]

\* handle_webapp_data(update, context) for user_id and the decoded JSON
\* object data, at clock t, with the tracker's methods in down failing.  It
\* never touches user_states, and every exception ends in the error reply.
WebappOutcome(us, led, t, user_id, data, down) ==
    IF "transactions" \in DOMAIN data
    THEN LET b == BatchLoop(led, t, user_id, data.transactions, 1, 0, 0, down)
         IN  IF b.exc # "none" \/ "get_user_balance" \in down
             THEN Outcome(us, b.ledger, WebappErrorReply, "none")
             ELSE Outcome(us, b.ledger,
                          [kind |-> "sync", count |-> Len(data.transactions),
                           total_income |-> b.total_income,
                           total_expense |-> b.total_expense,
                           balance |-> GetUserBalance(b.ledger, user_id),
                           keyboard |->
                               GetMainKeyboard(b.ledger, t, user_id, down)],
                          "none")
    ELSE IF "type" \notin DOMAIN data \/ "amount" \notin DOMAIN data
            \/ "category" \notin DOMAIN data
    THEN Outcome(us, led, WebappErrorReply, "none")
    ELSE LET r == InsertElement(led, t, user_id, data, down)
         IN  IF r.exc # "none" \/ "get_user_balance" \in down
             THEN Outcome(us, r.ledger, WebappErrorReply, "none")
             ELSE IF ~CanFormat2f(data.amount)
             THEN \* the row is committed; building the reply text raises
                  Outcome(us, r.ledger, WebappErrorReply, "none")
             ELSE Outcome(us, r.ledger,
                          [kind |-> "added", type |-> data.type,
                           amount |-> data.amount.val.val,
                           category |-> data.category,
                           description |-> DescriptionOf(data),
                           balance |-> GetUserBalance(r.ledger, user_id),
                           keyboard |->
                               GetMainKeyboard(r.ledger, t, user_id, down)],
                          "none")


\* ------------------------------------------------------ rich-client payloads
\* Transaction objects the model sends: three valid ones (an income with a
\* description, an expense of the fixed category set, an expense at the
\* maximum, outside the set and without description), one whose amount is a
\* JSON string, and invalid ones.
TxIncome ==
    [type |-> "income", amount |-> JNum(500), category |-> "Dohod",
     description |-> <<"obed">>]
TxExpense ==
    [type |-> "expense", amount |-> JNum(500), category |-> "Kofe",
     description |-> <<"obed">>]
TxOtherMax == [type |-> "expense", amount |-> JNum(1000000), category |-> "Eda"]
TxStr ==
    [type |-> "income", amount |-> JStr("500"), category |-> "Dohod",
     description |-> <<"obed">>]
TxZero == [type |-> "income", amount |-> JNum(0), category |-> "Dohod"]
TxNegative == [type |-> "expense", amount |-> JNum(0 - 5), category |-> "Kofe"]
TxOver == [type |-> "income", amount |-> JNum(1000001), category |-> "Dohod"]
TxBadType == [type |-> "transfer", amount |-> JNum(500), category |-> "Dohod"]
TxJunk == [type |-> "income", amount |-> JStr("abc"), category |-> "Dohod"]
TxNaN == [type |-> "income", amount |-> JNaN, category |-> "Dohod"]
TxNoType == [amount |-> JNum(500), category |-> "Dohod"]
TxNoAmount == [type |-> "income", category |-> "Dohod"]
TxNoCategory == [type |-> "expense", amount |-> JNum(500)]

SinglePayloads ==
    {TxIncome, TxExpense, TxOtherMax, TxStr, TxZero, TxNegative, TxOver,
     TxBadType, TxJunk, TxNaN, TxNoType, TxNoAmount, TxNoCategory}

\* The elements of the batches the model sends.
BatchElements == {TxIncome, TxOtherMax, TxZero}

\* Sequences over S of length 0..n.
SeqUpTo(S, n) == UNION {[1..k -> S] : k \in 0..n}

BatchPayloads == {[transactions |-> txs] : txs \in SeqUpTo(BatchElements, MaxBatch)}

\* -------------------------------------------------------------------- state
VARIABLES
    ledger,       \* the rows of table transactions, in insertion order
    user_states,  \* the dict user_states
    now,          \* the clock: the current day (all events of a run fall on it)
    reply,        \* the message the last handler sent (NoReply if none)
    raised,       \* the exception that escaped the last handler, or "none"
    last,         \* the last handler run: its name, its user, rows it added
    tasks,        \* per user, the handle_message coroutine in flight
    running,      \* the user whose coroutine the event loop runs, or 0
    launch        \* per user, the URL of the last main keyboard sent to them

vars ==
    <<ledger, user_states, now, reply, raised, last, tasks, running, launch>>

\* No main keyboard was sent to the user yet.
NoLaunch == [none |-> TRUE]

\* No coroutine of the user is in flight.
IdleTask == [pc |-> "idle", text |-> <<>>]

\* The empty dict.
EmptyDict == [x \in {} |-> StMain]

Init ==
    /\ ledger = <<>>
    /\ user_states = EmptyDict
    /\ now = 0
    /\ reply = NoReply
    /\ raised = "none"
    /\ last = [op |-> "init", user |-> 0, inserted |-> 0]
    /\ tasks = [u \in Users |-> IdleTask]
    /\ running = 0
    /\ launch = [u \in Users |-> NoLaunch]

\* A handler ran for user_id and left outcome out.
Handled(op, user_id, out) ==
    /\ Len(out.ledger) <= MaxLedger
    /\ ledger' = out.ledger
    /\ user_states' = out.user_states
    /\ reply' = out.reply
    /\ raised' = out.raised
    /\ last' = [op |-> op, user |-> user_id,
                inserted |-> Len(out.ledger) - Len(ledger)]
    /\ UNCHANGED <<now, tasks, running>>

\* The same, the keyboards on the users' screens not followed.
Apply(op, user_id, out) ==
    /\ Handled(op, user_id, out)
    /\ UNCHANGED launch

\* start(update, context).
StartOutcome(us, led, t, user_id, down) ==
    Outcome(Put(us, user_id, StMain), led,
            [kind |-> "welcome",
             keyboard |-> GetMainKeyboard(led, t, user_id, down)],
            "none")

\* help_command(update, context).
HelpOutcome(us, led) ==
    Outcome(us, led, [kind |-> "help", keyboard |-> NoKeyboard], "none")

\* refresh_command(update, context): get_user_stats is called outside any
\* try block.
RefreshOutcome(us, led, t, user_id, down) ==
    IF SnapshotFails(down)
    THEN Outcome(us, led, NoReply, "OperationalError")
    ELSE Outcome(us, led,
                 [kind |-> "refreshed",
                  balance |-> GetUserBalance(led, user_id),
                  keyboard |-> GetMainKeyboard(led, t, user_id, down)],
                 "none")

\* /start
Start(user_id) ==
    Apply("start", user_id,
          StartOutcome(user_states, ledger, now, user_id, NoFailure))

\* /help
HelpCommand(user_id) ==
    Apply("help", user_id, HelpOutcome(user_states, ledger))

\* /refresh
RefreshCommand(user_id) ==
    Apply("refresh", user_id,
          RefreshOutcome(user_states, ledger, now, user_id, NoFailure))

\* A web_app_data update carrying one transaction object.
HandleWebappSingle(user_id, data) ==
    Apply("webapp_single", user_id,
          WebappOutcome(user_states, ledger, now, user_id, data, NoFailure))

\* A web_app_data update carrying {"transactions": [...]}.  The bound on
\* the table is tested on the loop's result before the reply is built.
HandleWebappBatch(user_id, data) ==
    /\ Len(BatchLoop(ledger, now, user_id, data.transactions, 1, 0, 0,
                     NoFailure).ledger) <= MaxLedger
    /\ Apply("webapp_batch", user_id,
             WebappOutcome(user_states, ledger, now, user_id, data,
                           NoFailure))

\* A text message.
HandleMessage(user_id, text) ==
    Apply("message", user_id,
          MessageOutcome(user_states, ledger, now, user_id, text, NoFailure))

Next ==
    \/ \E u \in Users : Start(u)
    \/ \E u \in Users : HelpCommand(u)
    \/ \E u \in Users : RefreshCommand(u)
    \/ \E u \in Users, data \in SinglePayloads : HandleWebappSingle(u, data)
    \/ \E u \in Users, data \in BatchPayloads : HandleWebappBatch(u, data)
    \/ \E u \in Users, text \in Texts : HandleMessage(u, text)

Spec == Init /\ [][Next]_vars

\* --------------------------------------------- handlers run as coroutines
\* handle_message for the two amount states, step by step.  The event loop
\* runs one coroutine at a time and takes another one only when the running
\* one reaches an await.  A coroutine is at "ready" (created for an update),
\* "parsed", then inside add_transaction at "called" (validation),
\* "connected" (sqlite3.connect), "inserted" (INSERT executed, not
\* committed), then "committed", and at "reply" or "reply_error" in
\* await reply_text.

\* An add_transaction whose INSERT is awaited (an asynchronous database
\* driver): the coroutine also yields between INSERT and commit.
AwaitPoints_AsyncStore == {"reply", "reply_error", "inserted"}

\* The positions at which the coroutine yields to the event loop: the two
\* "await update.message.reply_text(...)"; add_transaction has no await.
AwaitPoints == {"reply", "reply_error"}

\* The positions inside add_transaction before its commit.
InAddTransaction == {"called", "connected", "inserted"}

\* The amount texts sent to the coroutines.
ConcTexts == {<<"500", "obed">>, <<"0">>, <<"abc">>}

AmountStates == {"enter_income_amount", "enter_expense_amount"}

InFlight == {u \in Users : tasks[u].pc # "idle"}

\* The coroutine of u moves to position pc; the event loop keeps running it
\* unless that position is an await or its end.
MoveTo(u, pc) ==
    /\ tasks' = [tasks EXCEPT ![u].pc = pc]
    /\ running' = IF pc \in AwaitPoints \cup {"idle"} THEN 0 ELSE u

\* The arguments of the add_transaction call of u's coroutine.
ConcTypeOf(u) ==
    IF user_states[u].state = "enter_income_amount" THEN "income"
    ELSE "expense"
ConcCategoryOf(u) ==
    IF user_states[u].state = "enter_income_amount" THEN INCOME_CATEGORY
    ELSE user_states[u].category
ConcAddTransaction(u) ==
    AddTransaction(ledger, now, u, ConcTypeOf(u),
                   ParseFloat(Head(tasks[u].text)).value, ConcCategoryOf(u),
                   PartsDescription(tasks[u].text))

\* An update with an amount text arrives for a user in an amount state; the
\* application creates the coroutine (one per user at a time).
ConcDispatch(u, text) ==
    /\ tasks[u].pc = "idle"
    /\ u \in DOMAIN user_states
    /\ user_states[u].state \in AmountStates
    /\ Len(ledger) + Cardinality(InFlight) < MaxLedger
    /\ tasks' = [tasks EXCEPT ![u] = [pc |-> "ready", text |-> text]]
    /\ UNCHANGED <<ledger, user_states, now, reply, raised, last, running>>
    /\ UNCHANGED launch

\* The event loop is free and takes a coroutine that is ready or whose await
\* has completed.
ConcResume(u) ==
    /\ running = 0
    /\ tasks[u].pc \in AwaitPoints \cup {"ready"}
    /\ running' = u
    /\ UNCHANGED <<ledger, user_states, now, reply, raised, last, tasks>>
    /\ UNCHANGED launch

\* parts = text.split(maxsplit=1); amount = float(parts[0]); description.
ConcParse(u) ==
    /\ running = u
    /\ tasks[u].pc = "ready"
    /\ IF ParseFloat(Head(tasks[u].text)).ok
       THEN /\ MoveTo(u, "called")
            /\ UNCHANGED <<reply, raised, last>>
       ELSE /\ MoveTo(u, "reply_error")
            /\ reply' = AmountError(user_states, ledger, u,
                                    "not_a_number").reply
            /\ raised' = "none"
            /\ last' = [op |-> "message", user |-> u, inserted |-> 0]
    /\ UNCHANGED <<ledger, user_states, now>>
    /\ UNCHANGED launch

\* add_transaction: the validation of its arguments.
ConcValidate(u) ==
    /\ running = u
    /\ tasks[u].pc = "called"
    /\ IF ConcAddTransaction(u).exc = "ValueError"
       THEN /\ MoveTo(u, "reply_error")
            /\ reply' = AmountError(user_states, ledger, u,
                                    ConcAddTransaction(u).reason).reply
            /\ raised' = "none"
            /\ last' = [op |-> "message", user |-> u, inserted |-> 0]
       ELSE /\ MoveTo(u, "connected")
            /\ UNCHANGED <<reply, raised, last>>
    /\ UNCHANGED <<ledger, user_states, now>>
    /\ UNCHANGED launch

\* add_transaction: cursor.execute(INSERT ...).
ConcInsert(u) ==
    /\ running = u
    /\ tasks[u].pc = "connected"
    /\ MoveTo(u, "inserted")
    /\ UNCHANGED <<ledger, user_states, now, reply, raised, last>>
    /\ UNCHANGED launch

\* add_transaction: conn.commit(); conn.close().
ConcCommit(u) ==
    /\ running = u
    /\ tasks[u].pc = "inserted"
    /\ ledger' = ConcAddTransaction(u).ledger
    /\ MoveTo(u, "committed")
    /\ UNCHANGED <<user_states, now, reply, raised, last>>
    /\ UNCHANGED launch

\* The reply is built and await reply_text is reached.
ConcReply(u) ==
    /\ running = u
    /\ tasks[u].pc = "committed"
    /\ reply' = [kind |-> IF ConcTypeOf(u) = "income" THEN "income_added"
                          ELSE "expense_added",
                 amount |-> ParseFloat(Head(tasks[u].text)).value.val,
                 category |-> ConcCategoryOf(u),
                 description |-> PartsDescription(tasks[u].text),
                 keyboard |-> GetMainKeyboard(ledger, now, u, NoFailure)]
    /\ raised' = "none"
    /\ last' = [op |-> "message", user |-> u, inserted |-> 1]
    /\ MoveTo(u, "reply")
    /\ UNCHANGED <<ledger, user_states, now>>
    /\ UNCHANGED launch

\* After await reply_text: user_states[user_id] = {"state": "main"} on the
\* success path, nothing on the except path; the coroutine ends.
ConcFinish(u) ==
    /\ running = u
    /\ tasks[u].pc \in {"reply", "reply_error"}
    /\ user_states' = IF tasks[u].pc = "reply"
                      THEN Put(user_states, u, StMain) ELSE user_states
    /\ tasks' = [tasks EXCEPT ![u] = IdleTask]
    /\ running' = 0
    /\ UNCHANGED <<ledger, now, reply, raised, last>>
    /\ UNCHANGED launch

\* A message to a user in no amount state: its handler calls no
\* add_transaction and runs while the event loop is free.
ConcOther(u, text) ==
    /\ running = 0
    /\ tasks[u].pc = "idle"
    /\ (u \in DOMAIN user_states => user_states[u].state \notin AmountStates)
    /\ HandleMessage(u, text)

NextConc ==
    \/ \E u \in Users, text \in ConcTexts : ConcDispatch(u, text)
    \/ \E u \in Users : ConcResume(u)
    \/ \E u \in Users : ConcParse(u)
    \/ \E u \in Users : ConcValidate(u)
    \/ \E u \in Users : ConcInsert(u)
    \/ \E u \in Users : ConcCommit(u)
    \/ \E u \in Users : ConcReply(u)
    \/ \E u \in Users : ConcFinish(u)
    \/ \E u \in Users, text \in {BTN_ADD_INCOME, BTN_ADD_EXPENSE, <<"Kofe">>} :
           ConcOther(u, text)

SpecConc == Init /\ [][NextConc]_vars

\* ------------------------------------------------- handlers, database failing
\* The handlers of one user while methods of the tracker fail.

\* The sets of failing methods a handler runs with: none, the one only
\* get_user_stats calls, each of the others, and all of them.
StoreFailures ==
    {NoFailure, {"get_user_transactions"}, {"get_stats"},
     {"get_user_balance"}, {"add_transaction"}, TrackerMethods}

\* The rich-client payloads sent while methods fail.
StorePayloads ==
    {TxIncome, TxExpense, TxZero,
     [transactions |-> <<TxIncome, TxExpense>>],
     [transactions |-> <<TxIncome, TxZero>>]}

StartUnder(user_id, down) ==
    Apply("start", user_id,
          StartOutcome(user_states, ledger, now, user_id, down))

RefreshUnder(user_id, down) ==
    Apply("refresh", user_id,
          RefreshOutcome(user_states, ledger, now, user_id, down))

WebappUnder(user_id, data, down) ==
    Apply(IF "transactions" \in DOMAIN data THEN "webapp_batch"
          ELSE "webapp_single",
          user_id,
          WebappOutcome(user_states, ledger, now, user_id, data, down))

MessageUnder(user_id, text, down) ==
    Apply("message", user_id,
          MessageOutcome(user_states, ledger, now, user_id, text, down))

NextStore ==
    \/ \E down \in StoreFailures : StartUnder(1, down)
    \/ \E down \in StoreFailures : RefreshUnder(1, down)
    \/ \E data \in StorePayloads, down \in StoreFailures :
           WebappUnder(1, data, down)
    \/ \E text \in Texts, down \in StoreFailures : MessageUnder(1, text, down)
    \/ HelpCommand(1)

SpecStore == Init /\ [][NextStore]_vars

\* ------------------------------------------------ the tracker, clock running
\* The methods of FinanceTracker called directly while the clock advances.

\* The arguments of the add_transaction calls: user, type, amount, category.
TrackerInserts ==
    {<<1, "income", 1500, "Dohod">>, <<1, "expense", 500, "Kofe">>,
     <<1, "expense", 1000000, "Transport">>, <<1, "expense", 0, "Kofe">>,
     <<2, "expense", 500, "Kofe">>}

Periods == {"day", "week", "month"}

\* The limits get_user_transactions is called with: its default, the one of
\* get_user_stats, small ones, zero and negative ones.
TrackerLimits == {50, 10, 2, 1, 0, 0 - 1}

\* tracker.add_transaction(...) at the current clock.
TrackerAdd(a) ==
    LET r == AddTransaction(ledger, now, a[1], a[2], Num(a[3]), a[4], <<>>)
    IN  /\ Len(r.ledger) <= MaxStatsRows
        /\ ledger' = r.ledger
        /\ reply' = NoReply
        /\ raised' = r.exc
        /\ last' = [op |-> "add_transaction", user |-> a[1],
                    inserted |-> Len(r.ledger) - Len(ledger)]
        /\ UNCHANGED <<user_states, now, tasks, running, launch>>

\* tracker.get_daily_stats / get_weekly_stats / get_monthly_stats.
TrackerStats(user_id, period) ==
    /\ reply' = [kind |-> "stats_result", period |-> period,
                 stats |-> GetStats(ledger, now, user_id, period)]
    /\ raised' = "none"
    /\ last' = [op |-> "get_stats", user |-> user_id, inserted |-> 0]
    /\ UNCHANGED <<ledger, user_states, now, tasks, running>>
    /\ UNCHANGED launch

\* tracker.get_user_transactions(user_id, limit).
TrackerTransactions(user_id, limit) ==
    /\ \E res \in GetUserTransactions(ledger, user_id, limit) :
           reply' = [kind |-> "transactions", limit |-> limit, rows |-> res]
    /\ raised' = "none"
    /\ last' = [op |-> "get_user_transactions", user |-> user_id,
                inserted |-> 0]
    /\ UNCHANGED <<ledger, user_states, now, tasks, running>>
    /\ UNCHANGED launch

\* A day passes.
Tick ==
    /\ now < MaxDay
    /\ now' = now + 1
    /\ UNCHANGED <<ledger, user_states, reply, raised, last, tasks, running>>
    /\ UNCHANGED launch

NextTracker ==
    \/ \E a \in TrackerInserts : TrackerAdd(a)
    \/ \E u \in Users, period \in Periods : TrackerStats(u, period)
    \/ \E u \in Users, limit \in TrackerLimits : TrackerTransactions(u, limit)
    \/ Tick

SpecTracker == Init /\ [][NextTracker]_vars

\* ------------------------------------------- the keyboards the users hold
\* The handlers with the main keyboards they send followed: a reply whose
\* reply_markup is get_main_keyboard(user_id) puts the web-app button with
\* that URL on the user's screen; a reply without it, or no reply, leaves
\* the URL the user was sent before.

\* reply_markup=get_main_keyboard(user_id) in a reply_text call.
SendsMainKeyboard(rep) ==
    "keyboard" \in DOMAIN rep /\ rep.keyboard.kind = "main"

\* The URL the user holds after a handler replied rep, having held before.
Received(rep, before) ==
    IF SendsMainKeyboard(rep) THEN rep.keyboard.url ELSE before

\* A handler ran for user_id and left outcome out; the user receives the
\* reply.
Deliver(op, user_id, out) ==
    /\ Handled(op, user_id, out)
    /\ launch' = [launch EXCEPT ![user_id] = Received(out.reply, @)]

\* The rich-client payloads sent: valid ones, one whose amount is a JSON
\* string, an invalid one, a valid batch and one whose second element is
\* invalid.
LaunchPayloads ==
    {TxIncome, TxExpense, TxStr, TxZero,
     [transactions |-> <<TxIncome, TxExpense>>],
     [transactions |-> <<TxIncome, TxZero>>]}

LaunchStart(user_id) ==
    Deliver("start", user_id,
            StartOutcome(user_states, ledger, now, user_id, NoFailure))

LaunchHelp(user_id) ==
    Deliver("help", user_id, HelpOutcome(user_states, ledger))

LaunchRefresh(user_id) ==
    Deliver("refresh", user_id,
            RefreshOutcome(user_states, ledger, now, user_id, NoFailure))

LaunchWebapp(user_id, data) ==
    Deliver(IF "transactions" \in DOMAIN data THEN "webapp_batch"
            ELSE "webapp_single",
            user_id,
            WebappOutcome(user_states, ledger, now, user_id, data, NoFailure))

LaunchMessage(user_id, text) ==
    Deliver("message", user_id,
            MessageOutcome(user_states, ledger, now, user_id, text, NoFailure))

NextLaunch ==
    \/ \E u \in Users : LaunchStart(u)
    \/ \E u \in Users : LaunchHelp(u)
    \/ \E u \in Users : LaunchRefresh(u)
    \/ \E u \in Users, data \in LaunchPayloads : LaunchWebapp(u, data)
    \/ \E u \in Users, text \in Texts : LaunchMessage(u, text)

SpecLaunch == Init /\ [][NextLaunch]_vars


\* =================================================================== claims
\* Helpers of the claims, stated apart from the operators that model the code.

\* The signed sum of a user's rows: income counts up, expense counts down.
RECURSIVE SignedSum(_, _)
SignedSum(led, u) ==
    IF led = <<>> THEN 0
    ELSE LET r == led[Len(led)]
             rest == SubSeq(led, 1, Len(led) - 1)
         IN  SignedSum(rest, u)
             + (IF r.user_id # u THEN 0
                ELSE IF r.type = "income" THEN r.amount
                ELSE IF r.type = "expense" THEN 0 - r.amount
                ELSE 0)

\* The rows of led in the order p (a permutation of its indices).
Permuted(led, p) == [i \in 1..Len(led) |-> led[p[i]]]

\* led1 is led0 with rows added at its end and nothing else changed.
IsExtension(led0, led1) ==
    /\ Len(led1) >= Len(led0)
    /\ SubSeq(led1, 1, Len(led0)) = led0

\* A transaction object a rich client may submit: all three required keys, a
\* kind of the two, an amount that is a number in (0, MAX_AMOUNT].  The
\* amount is a JSON number, or a JSON string that reads as one.
AmountInRange(n) == n > 0 /\ n <= 1000000

ValidTx(tx) ==
    /\ {"type", "amount", "category"} \subseteq DOMAIN tx
    /\ tx.type \in {"income", "expense"}
    /\ \/ tx.amount.form = "num" /\ ~tx.amount.val.nan
          /\ AmountInRange(tx.amount.val.val)
       \/ tx.amount.form = "str" /\ tx.amount.text \in Numerals
          /\ AmountInRange(NumeralValue(tx.amount.text))

\* The amount of a valid transaction object.
TxAmount(tx) ==
    IF tx.amount.form = "num" THEN tx.amount.val.val
    ELSE NumeralValue(tx.amount.text)

\* Row r records transaction object tx of user u.
RowMatches(r, u, tx) ==
    /\ r.user_id = u
    /\ r.type = tx.type
    /\ r.amount = TxAmount(tx)
    /\ r.category = tx.category
    /\ r.description = (IF "description" \in DOMAIN tx THEN tx.description
                        ELSE <<>>)

\* The number of valid elements before the first invalid one.
RECURSIVE ValidPrefix(_)
ValidPrefix(txs) ==
    IF txs = <<>> \/ ~ValidTx(Head(txs)) THEN 0
    ELSE 1 + ValidPrefix(Tail(txs))

\* The conversation mode of u: no entry in the dict counts as main.
ModeOf(us, u) == IF u \in DOMAIN us THEN us[u].state ELSE "main"

CommitsPrefix(led0, led1, u, txs, k) ==
    /\ Len(led1) = Len(led0) + k
    /\ SubSeq(led1, 1, Len(led0)) = led0
    /\ \A i \in 1..k : RowMatches(led1[Len(led0) + i], u, txs[i])

\* The batches of the claim: those the model sends, and a valid element (its
\* amount a JSON number or a JSON string) before and after each kind of
\* invalid element.
C2_InvalidElements ==
    {TxZero, TxNegative, TxOver, TxBadType, TxJunk, TxNaN, TxNoType,
     TxNoAmount, TxNoCategory}

C2_Batches ==
    BatchPayloads
    \cup {[transactions |-> <<good, bad>>] :
              good \in {TxIncome, TxStr}, bad \in C2_InvalidElements}
    \cup {[transactions |-> <<bad, good>>] :
              good \in {TxIncome, TxStr}, bad \in C2_InvalidElements}

\* C2: in every reachable state, when handle_webapp_data handles a batch
\* whose first invalid element has k valid elements before it, exactly those
\* k are committed, in input order; no later element is committed and none
\* of the k is rolled back.
C2_BatchFailFast ==
    \A u \in Users, data \in C2_Batches :
        LET txs == data.transactions
            out == WebappOutcome(user_states, ledger, now, u, data, NoFailure)
        IN  ValidPrefix(txs) < Len(txs)
            => CommitsPrefix(ledger, out.ledger, u, txs, ValidPrefix(txs))

\* A batch failed after it had committed two rows.
C2_Witness ==
    /\ last.op = "webapp_batch"
    /\ reply = WebappErrorReply
    /\ last.inserted = 2

\* ----------------------------------------------------------------------- C3
\* C3: the reply to a batch that failed reports the index of the failing
\* element, the reason, and the number of rows committed before it.
C3_BatchFailureReported ==
    (last.op = "webapp_batch" /\ reply.kind = "webapp_error")
    => /\ {"failed_index", "reason", "committed"} \subseteq DOMAIN reply
       /\ reply.committed = last.inserted
       /\ reply.failed_index = last.inserted

\* ----------------------------------------------------------------------- C4
\* A single-transaction payload the handler can answer: a valid transaction
\* object whose amount is a JSON number.
ValidSingle(data) == ValidTx(data) /\ data.amount.form = "num"

\* C4: in every reachable state, a valid single-transaction payload of user
\* u appends exactly one row, whose user, kind, amount, category and
\* description are the payload's, and the reply reports the balance before
\* the call plus the amount (income) or minus the amount (expense).
C4_SingleRoundTrip ==
    \A u \in Users, data \in SinglePayloads :
        LET out == WebappOutcome(user_states, ledger, now, u, data, NoFailure)
        IN  ValidSingle(data)
            => /\ CommitsPrefix(ledger, out.ledger, u, <<data>>, 1)
               /\ out.reply.kind = "added"
               /\ out.reply.balance =
                      SignedSum(ledger, u)
                      + (IF data.type = "income" THEN TxAmount(data)
                         ELSE 0 - TxAmount(data))

\* A single expense was added on top of an earlier row of the same user.
C4_Witness ==
    /\ last.op = "webapp_single"
    /\ reply.kind = "added"
    /\ reply.type = "expense"
    /\ Len(ledger) = 2
    /\ ledger[1].user_id = last.user
    /\ reply.balance = SignedSum(ledger, last.user)

\* ----------------------------------------------------------------------- C5
\* C5: whenever handle_webapp_data answers a single-transaction payload with
\* its error reply, it has added no row.
C5_ErrorReplyLeavesLedger ==
    (last.op = "webapp_single" /\ reply.kind = "webapp_error")
    => last.inserted = 0

\* ----------------------------------------------------------------------- C6
\* Amounts and kinds around the limits of add_transaction.
C6_Amounts == {0 - 5, 0, 1, 500, 999999, 1000000, 1000001}
C6_Kinds == {"income", "expense", "transfer", ""}

\* C6: on every reachable table, add_transaction raises its validation error
\* and leaves the table as it is when the amount is <= 0 or above 1000000 or
\* the kind is neither income nor expense; otherwise (1000000 included) it
\* returns and the table has one more row.
C6_AddTransactionValidates ==
    \A u \in Users, ty \in C6_Kinds, a \in C6_Amounts :
        LET r == AddTransaction(ledger, now, u, ty, Num(a), "Kofe", <<>>)
        IN  IF a <= 0 \/ a > 1000000 \/ ty \notin {"income", "expense"}
            THEN r.exc = "ValueError" /\ r.ledger = ledger
            ELSE /\ r.exc = "none"
                 /\ Len(r.ledger) = Len(ledger) + 1
                 /\ SubSeq(r.ledger, 1, Len(ledger)) = ledger
                 /\ r.ledger[Len(r.ledger)].amount = a

\* An amount above the maximum was just refused while a row at the maximum
\* is in the table.
C6_Witness ==
    /\ reply.kind = "error"
    /\ reply.reason = "too_large"
    /\ last.inserted = 0
    /\ \E i \in 1..Len(ledger) : ledger[i].amount = 1000000

\* ----------------------------------------------------------------------- C7
\* C7: every row has 0 < amount <= 1000000 and kind income or expense.
C7_RowsValid ==
    \A i \in 1..Len(ledger) :
        /\ ledger[i].amount > 0
        /\ ledger[i].amount <= 1000000
        /\ ledger[i].type \in {"income", "expense"}

\* The table is full, holds an expense at the maximum, and the last event
\* was a refused amount.
C7_Witness ==
    /\ Len(ledger) = MaxLedger
    /\ \E i \in 1..Len(ledger) :
           ledger[i].type = "expense" /\ ledger[i].amount = 1000000
    /\ reply.kind \in {"error", "webapp_error"}

\* ----------------------------------------------------------------------- C8
\* Ids are unique and increase in insertion order.
IdsIncrease(led) ==
    \A i, j \in 1..Len(led) : i < j => led[i].id < led[j].id

\* C8: every step keeps every row, with all its fields, at its place, never
\* shortens the table, and leaves the ids strictly increasing.
C8_AppendOnly ==
    [][IsExtension(ledger, ledger') /\ IdsIncrease(ledger')]_vars

\* Two rows are in the table and the last event was a /refresh.
C8_Witness ==
    /\ Len(ledger) = 2
    /\ ledger[1].id < ledger[2].id
    /\ last.op = "refresh"

\* ----------------------------------------------------------------------- C9
\* C9: every expense row has a non-empty category of EXPENSE_CATEGORIES.
C9_ExpenseCategoryInSet ==
    \A i \in 1..Len(ledger) :
        ledger[i].type = "expense"
        => ledger[i].category # "" /\ ledger[i].category \in EXPENSE_CATEGORIES

\* ---------------------------------------------------------------------- C10
\* C10: in every reachable state, for a user in main the add-expense button
\* leads to select_expense_category; for a user in select_expense_category a
\* text that is no category of the set and not the back button changes
\* neither the user's state nor the table, and a category of the set leads
\* to enter_expense_amount with that category.
C10_ExpenseCategoryStep ==
    \A u \in Users, text \in Texts :
        LET out == MessageOutcome(user_states, ledger, now, u, text,
                                  NoFailure)
            isCategory == Len(text) = 1 /\ text[1] \in EXPENSE_CATEGORIES
        IN  /\ (ModeOf(user_states, u) = "main" /\ text = BTN_ADD_EXPENSE)
               => out.user_states[u] = [state |-> "select_expense_category"]
            /\ (/\ ModeOf(user_states, u) = "select_expense_category"
                /\ text # BTN_BACK
                /\ ~isCategory)
               => /\ out.user_states = user_states
                  /\ out.ledger = ledger
            /\ (ModeOf(user_states, u) = "select_expense_category"
                /\ isCategory)
               => out.user_states[u] = [state |-> "enter_expense_amount",
                                        category |-> text[1]]

\* One user has chosen a category; the other is still choosing and its last
\* text was ignored.
C10_Witness ==
    /\ last.op = "message"
    /\ reply = NoReply
    /\ ModeOf(user_states, last.user) = "select_expense_category"
    /\ \E v \in DOMAIN user_states :
           user_states[v] = [state |-> "enter_expense_amount",
                             category |-> "Kofe"]

\* ---------------------------------------------------------------------- C11
\* C11: in every reachable state and for every user, whatever the user's
\* conversation state, the back button leaves the user in main with no
\* category kept, leaves the other users' states and the table as they are,
\* and raises nothing; so main is one message away from every reachable
\* state.
C11_BackReturnsToMain ==
    \A u \in Users :
        LET out == MessageOutcome(user_states, ledger, now, u, BTN_BACK,
                                  NoFailure)
        IN  /\ out.user_states[u] = [state |-> "main"]
            /\ \A v \in DOMAIN user_states \ {u} :
                   out.user_states[v] = user_states[v]
            /\ out.ledger = ledger
            /\ out.raised = "none"
            /\ out.reply.kind = "menu"

\* The back button was just answered for a user who is now in main, while
\* the other user still holds a pending category and the table has a row.
C11_Witness ==
    /\ last.op = "message"
    /\ reply.kind = "menu"
    /\ user_states[last.user] = [state |-> "main"]
    /\ \E v \in DOMAIN user_states \ {last.user} :
           user_states[v].state = "enter_expense_amount"
    /\ Len(ledger) >= 1

\* ---------------------------------------------------------------------- C12
\* Texts whose first word is an amount in (0, 1000000], with and without a
\* description.
C12_Texts ==
    {<<"500">>, <<"500", "obed">>, <<"1000000">>,
     <<"1000000", "obed", "v", "kafe">>}

\* C12: in every reachable state, for a user in enter_income_amount
\* (enter_expense_amount) a text whose first word is an amount in
\* (0, 1000000] adds exactly one row after the rows already there: of that
\* user, of that amount, of type income and category Dohod (of type expense
\* and the pending category), with the rest of the text as description; the
\* user is in main afterwards.
C12_ValidAmountRecords ==
    \A u \in Users, text \in C12_Texts :
        ModeOf(user_states, u) \in {"enter_income_amount",
                                    "enter_expense_amount"}
        => LET out == MessageOutcome(user_states, ledger, now, u, text,
                                  NoFailure)
               n == Len(ledger)
               row == out.ledger[n + 1]
           IN  /\ Len(out.ledger) = n + 1
               /\ SubSeq(out.ledger, 1, n) = ledger
               /\ row.user_id = u
               /\ row.amount = NumeralValue(Head(text))
               /\ row.description = Tail(text)
               /\ IF user_states[u].state = "enter_income_amount"
                  THEN row.type = "income" /\ row.category = INCOME_CATEGORY
                  ELSE /\ row.type = "expense"
                       /\ row.category = user_states[u].category
               /\ out.user_states[u] = [state |-> "main"]
               /\ out.raised = "none"

\* An expense with a description was just recorded under the pending
\* category and its user is back in main.
C12_Witness ==
    /\ last.op = "message"
    /\ reply.kind = "expense_added"
    /\ last.inserted = 1
    /\ ledger[Len(ledger)].type = "expense"
    /\ ledger[Len(ledger)].category = "Kofe"
    /\ ledger[Len(ledger)].description = <<"obed">>
    /\ user_states[last.user] = [state |-> "main"]

\* ---------------------------------------------------------------------- C13
\* Texts whose first word is no number, or a number <= 0 or above 1000000.
C13_Texts ==
    {<<"abc">>, <<"abc", "obed">>, <<"0">>, <<"-5">>, <<"-5", "obed">>,
     <<"1000001">>, BTN_BALANCE, <<"Kofe">>}

\* C13: in every reachable state, for a user in one of the two amount states
\* a text whose first word is no number, or is <= 0, or is above 1000000, is
\* answered with the error reply, raises nothing, and changes neither
\* user_states nor the table; a valid amount sent next is recorded.
C13_BadAmountKeepsState ==
    \A u \in Users, text \in C13_Texts :
        ModeOf(user_states, u) \in {"enter_income_amount",
                                    "enter_expense_amount"}
        => LET out == MessageOutcome(user_states, ledger, now, u, text,
                                  NoFailure)
               again == MessageOutcome(out.user_states, out.ledger, now, u,
                                       <<"500", "obed">>, NoFailure)
           IN  /\ out.reply.kind = "error"
               /\ out.raised = "none"
               /\ out.user_states = user_states
               /\ out.ledger = ledger
               /\ Len(again.ledger) = Len(ledger) + 1
               /\ again.ledger[Len(ledger) + 1].amount = 500
               /\ again.user_states[u] = [state |-> "main"]

\* An amount above the maximum was just refused for a user who is still
\* asked for the amount of an expense of the same category.
C13_Witness ==
    /\ last.op = "message"
    /\ reply.kind = "error"
    /\ reply.reason = "too_large"
    /\ last.inserted = 0
    /\ user_states[last.user] = [state |-> "enter_expense_amount",
                                 category |-> "Kofe"]

\* ---------------------------------------------------------------------- C14
\* The conversation state of a user; a user not in the dict is in main.
ConvOf(us, u) == IF u \in DOMAIN us THEN us[u] ELSE [state |-> "main"]

\* C14: in every reachable state, for every user and text, with the database
\* available or with methods of the tracker failing, when handling the text
\* runs into an error (one that handle_message answers or one that escapes
\* it), a reply has been sent and the user's conversation state is what it
\* was.
C14_ErrorsAnswered ==
    \A u \in Users, text \in Texts, down \in StoreFailures :
        LET out == MessageOutcome(user_states, ledger, now, u, text, down)
        IN  (out.raised # "none" \/ out.reply.kind = "error")
            => /\ out.reply # NoReply
               /\ ConvOf(out.user_states, u) = ConvOf(user_states, u)

\* ---------------------------------------------------------------------- C15
\* C15: in every reachable state, every user's entry has a category exactly
\* when its state is enter_expense_amount, and that category is one of
\* EXPENSE_CATEGORIES.
C15_PendingCategoryIffExpenseAmount ==
    \A u \in DOMAIN user_states :
        /\ ("category" \in DOMAIN user_states[u])
           <=> (user_states[u].state = "enter_expense_amount")
        /\ ("category" \in DOMAIN user_states[u])
           => user_states[u].category \in EXPENSE_CATEGORIES

\* One user holds a pending category; the other went through
\* enter_expense_amount, recorded an expense and is now asked for an income.
C15_Witness ==
    /\ \E u \in DOMAIN user_states :
           user_states[u] = [state |-> "enter_expense_amount",
                             category |-> "Kofe"]
    /\ \E v \in DOMAIN user_states :
           /\ user_states[v] = [state |-> "enter_income_amount"]
           /\ \E i \in 1..Len(ledger) :
                  ledger[i].user_id = v /\ ledger[i].type = "expense"

\* ---------------------------------------------------------------------- C16
\* The sum of the values of a category mapping.
RECURSIVE SumValues(_)
SumValues(f) ==
    IF DOMAIN f = {} THEN 0
    ELSE LET c == CHOOSE x \in DOMAIN f : TRUE
         IN  f[c] + SumValues([x \in DOMAIN f \ {c} |-> f[x]])

\* The first instant of the window of a period at clock t: the current day,
\* the most recent Monday at or before it, the 1st of the current month.
WindowStartOf(t, period) ==
    IF period = "day" THEN Strftime(t)
    ELSE IF period = "week"
    THEN Strftime(CHOOSE d \in (t - 6)..t : Weekday(d) = 0)
    ELSE <<Strftime(t)[1], Strftime(t)[2], 1>>

\* The positions of the rows of user u and type ty posted at or after the
\* start of the window.
RowsSince(led, u, ty, start) ==
    {i \in 1..Len(led) :
        led[i].user_id = u /\ led[i].type = ty /\ DateGeq(led[i].date, start)}

\* C16: for every table and clock reached, every user and each of the three
\* periods, the values of the expense mapping sum to total_expense and those
\* of the income mapping to total_income, no entry of either mapping is 0,
\* and with no expense row of the user in the window the expense mapping is
\* empty and total_expense is 0.
C16_MappingsSumToTotals ==
    \A u \in Users, period \in Periods :
        LET st == GetStats(ledger, now, u, period)
        IN  /\ SumValues(st.expense) = st.total_expense
            /\ SumValues(st.income) = st.total_income
            /\ \A c \in DOMAIN st.expense : st.expense[c] # 0
            /\ \A c \in DOMAIN st.income : st.income[c] # 0
            /\ RowsSince(ledger, u, "expense", WindowStartOf(now, period)) = {}
               => DOMAIN st.expense = {} /\ st.total_expense = 0

\* The statistics of a week were just read: two expense categories are in
\* them and a third row of the table is not.
C16_Witness ==
    /\ last.op = "get_stats"
    /\ reply.kind = "stats_result"
    /\ reply.period = "week"
    /\ Cardinality(DOMAIN reply.stats.expense) = 2
    /\ reply.stats.total_expense = 1000500
    /\ Len(ledger) = 3

\* ---------------------------------------------------------------------- C17
\* The sum of the amounts of the rows at a set of positions.
RECURSIVE TotalOf(_, _)
TotalOf(led, rows) ==
    IF rows = {} THEN 0
    ELSE LET i == CHOOSE j \in rows : TRUE
         IN  led[i].amount + TotalOf(led, rows \ {i})

\* C17: for every table and clock reached, every user and each of the three
\* periods, total_income and total_expense are the sums over exactly the
\* user's income and expense rows posted at or after the start of the
\* current day, of the most recent Monday, of the 1st of the month, and each
\* expense category's entry is the sum over those rows of that category;
\* with an income of 1500 and an expense of 500 in Kofe in the current month
\* the month shows 1500, 500 and {Kofe: 500}.
C17_WindowTotals ==
    \A u \in Users, period \in Periods :
        LET st == GetStats(ledger, now, u, period)
            start == WindowStartOf(now, period)
            inc == RowsSince(ledger, u, "income", start)
            exp == RowsSince(ledger, u, "expense", start)
        IN  /\ st.total_income = TotalOf(ledger, inc)
            /\ st.total_expense = TotalOf(ledger, exp)
            /\ DOMAIN st.expense = {ledger[i].category : i \in exp}
            /\ \A c \in DOMAIN st.expense :
                   st.expense[c] =
                       TotalOf(ledger, {i \in exp : ledger[i].category = c})
            /\ (/\ period = "month"
                /\ Cardinality(inc) = 1 /\ Cardinality(exp) = 1
                /\ \A i \in inc : ledger[i].amount = 1500
                /\ \A i \in exp : ledger[i].amount = 500
                                  /\ ledger[i].category = "Kofe")
               => /\ st.total_income = 1500
                  /\ st.total_expense = 500
                  /\ st.expense = [c \in {"Kofe"} |-> 500]

\* On Wednesday 2026-12-02 the statistics of the week were just read; the
\* user has a row of Sunday (before the week), one of Monday (in the week,
\* before the month) and one of today, and the week counts the last two.
C17_Witness ==
    /\ now = 3
    /\ last.op = "get_stats"
    /\ reply.period = "week"
    /\ Len(ledger) = 3
    /\ \A i \in 1..3 : ledger[i].user_id = last.user
    /\ ledger[1].date = <<2026, 11, 29>> /\ ledger[1].type = "expense"
    /\ ledger[2].date = <<2026, 11, 30>> /\ ledger[2].type = "expense"
    /\ ledger[3].date = <<2026, 12, 2>> /\ ledger[3].type = "income"
    /\ reply.stats.total_expense = ledger[2].amount
    /\ reply.stats.total_income = 1500

\* ---------------------------------------------------------------------- C18
\* C18: for every table reached, every user and limit, every list
\* get_user_transactions may return is ordered by date, newest first, has
\* min(limit, number of the user's rows) rows, and is empty for every
\* limit <= 0.
C18_RecentTruncated ==
    \A u \in Users, limit \in TrackerLimits :
        \A res \in GetUserTransactions(ledger, u, limit) :
            LET n == Cardinality({i \in 1..Len(ledger) :
                                     ledger[i].user_id = u})
            IN  /\ \A a, b \in 1..Len(res) :
                       a < b => DateGeq(res[a].date, res[b].date)
                /\ limit > 0 => Len(res) = (IF limit < n THEN limit ELSE n)
                /\ limit <= 0 => res = <<>>

\* ---------------------------------------------------------------------- C19
\* The events of a user: a command, a text or a rich-client payload.
C19_Events ==
    {[op |-> "start"], [op |-> "refresh"]}
    \cup {[op |-> "message", text |-> text] : text \in Texts}
    \cup {[op |-> "webapp", data |-> data] : data \in StorePayloads}

\* What the handler of event e leaves behind for user u in the current
\* state, with the methods in down failing.
C19_Outcome(u, e, down) ==
    IF e.op = "start"
    THEN StartOutcome(user_states, ledger, now, u, down)
    ELSE IF e.op = "refresh"
    THEN RefreshOutcome(user_states, ledger, now, u, down)
    ELSE IF e.op = "message"
    THEN MessageOutcome(user_states, ledger, now, u, e.text, down)
    ELSE WebappOutcome(user_states, ledger, now, u, e.data, down)

\* A reply that carries the main keyboard.
HasMainKeyboard(rep) == rep # NoReply /\ rep.keyboard.kind = "main"

\* C19: in every reachable state, for every user and every set of failing
\* methods that makes get_user_stats fail, get_webapp_url_with_data returns
\* the bare URL, which carries no balance, no statistics and no user id; a
\* handler that gets as far as the keyboard raises nothing and sends the
\* reply, leaves the states and the table it leaves when nothing fails, and
\* its reply differs from that one only in the URL; and when nothing but the
\* snapshot fails, every handler that sends the main keyboard still does
\* (refresh_command apart, which calls get_user_stats itself before it asks
\* for the keyboard).
C19_SnapshotFailureDegrades ==
    \A u \in Users, down \in SUBSET TrackerMethods :
        SnapshotFails(down)
        => /\ GetWebappUrlWithData(ledger, now, u, down) = BareUrl
           /\ DOMAIN BareUrl
                  \cap {"balance", "daily", "weekly", "monthly", "user_id"}
              = {}
           /\ \A e \in C19_Events :
                  LET f == C19_Outcome(u, e, down)
                      ok == C19_Outcome(u, e, NoFailure)
                  IN  /\ HasMainKeyboard(f.reply)
                         => /\ f.raised = "none"
                            /\ f.user_states = ok.user_states
                            /\ f.ledger = ok.ledger
                            /\ f.reply.keyboard.url = BareUrl
                            /\ f.reply =
                                   [ok.reply EXCEPT !.keyboard.url = BareUrl]
                      /\ (/\ down = {"get_user_transactions"}
                          /\ e.op # "refresh"
                          /\ HasMainKeyboard(ok.reply))
                         => HasMainKeyboard(f.reply)

\* An expense was just recorded while the snapshot failed: the reply went
\* out with the bare URL and the user is back in main.
C19_Witness ==
    /\ last.op = "message"
    /\ reply.kind = "expense_added"
    /\ reply.keyboard.url = BareUrl
    /\ raised = "none"
    /\ last.inserted = 1
    /\ user_states[last.user] = [state |-> "main"]

\* ---------------------------------------------------------------------- C20
\* C20: while the coroutines of different users interleave at their awaits,
\* at no time are two of them inside add_transaction before its commit, and
\* the one that is inside is the one the event loop is running: between the
\* start of an add_transaction and its commit no other coroutine takes a
\* step.
C20_InsertsDoNotOverlap ==
    \A u \in Users :
        tasks[u].pc \in InAddTransaction
        => /\ running = u
           /\ \A v \in Users \ {u} : tasks[v].pc \notin InAddTransaction

\* One coroutine has executed its INSERT and not yet committed, while the
\* coroutine of the other user is suspended in await reply_text after its
\* own commit.
C20_Witness ==
    \E u, v \in Users :
        /\ u # v
        /\ tasks[u].pc = "inserted"
        /\ tasks[v].pc = "reply"
        /\ Len(ledger) = 1
        /\ ledger[1].user_id = v

\* ---------------------------------------------------------------------- C21
\* The URL encodes balance b.
EncodesBalance(url, b) == "balance" \in DOMAIN url /\ url.balance = b

\* C21: after every handled event that added rows to a user's table, whether
\* it ended in a success reply or in an error reply, the URL of the main
\* keyboard last sent to that user encodes the user's current balance.
C21_LaunchContextCurrent ==
    \A u \in Users :
        (last.user = u /\ last.inserted > 0 /\ launch[u] # NoLaunch)
        => EncodesBalance(launch[u], GetUserBalance(ledger, u))

\* ---------------------------------------------------------------------- C22
\* The rows of user u, in table order.
RowsOfUser(led, u) == SelectSeq(led, LAMBDA r : r.user_id = u)

\* C22: a handler run for one user leaves, for every other user b, b's rows,
\* b's balance, b's day, week and month statistics and b's conversation
\* state as they were.
C22_UsersIsolated ==
    [][\A b \in Users :
           b # last'.user
           => /\ ConvOf(user_states', b) = ConvOf(user_states, b)
              /\ <<ledger', now'>> # <<ledger, now>>
                 => /\ RowsOfUser(ledger', b) = RowsOfUser(ledger, b)
                    /\ GetUserBalance(ledger', b) = GetUserBalance(ledger, b)
                    /\ \A period \in Periods :
                           GetStats(ledger', now', b, period)
                               = GetStats(ledger, now, b, period)]_vars

\* A handler has just added a row for user 1 while user 2 holds a row and
\* is about to enter the amount of an expense.
C22_Witness ==
    /\ last.user = 1
    /\ last.inserted = 1
    /\ Len(RowsOfUser(ledger, 2)) = 1
    /\ 2 \in DOMAIN user_states
    /\ user_states[2].state = "enter_expense_amount"

\* ---------------------------------------------------------------------- C23
\* The texts handle_message matches in state main, and the rich-client
\* payloads of the claim: every single object and every batch of at most
\* two elements.
MenuCommands ==
    {BTN_BACK, BTN_ADD_INCOME, BTN_ADD_EXPENSE, BTN_BALANCE, BTN_STATS,
     BTN_HELP}
C23_Payloads ==
    SinglePayloads \cup {b \in BatchPayloads : Len(b.transactions) <= 2}

\* C23: in every reachable state, a text that is no menu command sent by a
\* user in state main, and a text that is neither a period button nor the
\* back button sent by a user choosing a statistics period, leave that
\* user's conversation state and the table as they were; and a rich-client
\* update, whether it succeeds or fails, leaves every user's conversation
\* state as it was.
C23_UnmatchedInputsChangeNothing ==
    /\ \A u \in Users, text \in Texts :
           LET out == MessageOutcome(user_states, ledger, now, u, text,
                                     NoFailure)
               mode == ModeOf(user_states, u)
           IN  (\/ mode = "main" /\ text \notin MenuCommands
                \/ /\ mode = "select_stats_period"
                   /\ text \notin {BTN_DAY, BTN_WEEK, BTN_MONTH, BTN_BACK})
               => /\ out.ledger = ledger
                  /\ ConvOf(out.user_states, u) = ConvOf(user_states, u)
    /\ \A u \in Users, data \in C23_Payloads :
           LET out == WebappOutcome(user_states, ledger, now, u, data,
                                    NoFailure)
           IN  \A b \in Users :
                   ConvOf(out.user_states, b) = ConvOf(user_states, b)

\* User 1 is choosing a statistics period and user 2, holding a pending
\* category, has just had a rich-client update committed.
C23_Witness ==
    /\ ModeOf(user_states, 1) = "select_stats_period"
    /\ ModeOf(user_states, 2) = "enter_expense_amount"
    /\ user_states[2].category = "Kofe"
    /\ last.op \in {"webapp_single", "webapp_batch"}
    /\ last.user = 2
    /\ last.inserted > 0

\* ---------------------------------------------------------------------- C24
\* Every category of mapping f is a category of g with at least its amount.
MappingLeq(f, g) ==
    \A c \in DOMAIN f : c \in DOMAIN g /\ f[c] <= g[c]

\* The statistics narrow are contained in the statistics wide.
StatsLeq(narrow, wide) ==
    /\ narrow.total_income <= wide.total_income
    /\ narrow.total_expense <= wide.total_expense
    /\ MappingLeq(narrow.income, wide.income)
    /\ MappingLeq(narrow.expense, wide.expense)

\* C24: for every reachable table, every user and every day t of the model
\* taken as the instant of the query (the current day, an earlier and a
\* later one), the day statistics are contained in the week statistics and
\* in the month statistics: both totals and every category amount of the
\* day are at most those of the week and of the month.
C24_DayWithinWeekAndMonth ==
    \A u \in Users, t \in 0..MaxDay :
        /\ StatsLeq(GetDailyStats(ledger, t, u), GetWeeklyStats(ledger, t, u))
        /\ StatsLeq(GetDailyStats(ledger, t, u), GetMonthlyStats(ledger, t, u))

\* On Tuesday the first of the month user 1 holds an expense of that day and
\* one of the Monday before: the day's expenses are part of the week's, and
\* the month's are less than the week's.
C24_Witness ==
    /\ now = 2
    /\ GetDailyStats(ledger, now, 1).total_expense > 0
    /\ GetDailyStats(ledger, now, 1).total_expense
           < GetWeeklyStats(ledger, now, 1).total_expense
    /\ GetMonthlyStats(ledger, now, 1).total_expense
           < GetWeeklyStats(ledger, now, 1).total_expense
    /\ last.op = "get_stats"

====
